---- MODULE Spec2Model ----
(***************************************************************************)
(* Model of optimization/optimize_device_assignment.py: the assignment of  *)
(* UI elements to devices.  optimize() sorts its three input lists, calls  *)
(* pre_process_objects() to build the five matrices, builds the mixed      *)
(* integer program, calls the solver and copies the solved values into the *)
(* returned mapping.                                                       *)
(*                                                                         *)
(* Names (of elements, devices, users) are natural numbers; their numeric  *)
(* order stands for the lexical order of the name strings.  Matrix indices *)
(* are 1-based positions in the sorted lists (the code's are 0-based).     *)
(* Floating point values are modelled as exact fractions <<num, den>>.     *)
(***************************************************************************)
EXTENDS Integers, Sequences, FiniteSets, TLC

VARIABLES elements, devices, users,
          pc, loop_d, loop_e,
          element_user_imp, element_device_comp, element_device_imp,
          user_device_access, user_element_access,
          element_device_access, model_built, status, x, s,
          output, time_taken, optimizer_size,
          calls, first_result

vars == <<elements, devices, users, pc, loop_d, loop_e,
          element_user_imp, element_device_comp, element_device_imp,
          user_device_access, user_element_access,
          element_device_access, model_built, status, x, s,
          output, time_taken, optimizer_size,
          calls, first_result>>

(***************************************************************************)
(* Bounds of the model.                                                    *)
(***************************************************************************)
MaxImportance == 1
MaxDim == 2
MaxElapsed == 1
MaxCalls == 2

(***************************************************************************)
(* Thresholds of the code, as denominators: v < 1e-6 is v * 10^6 < 1.      *)
(***************************************************************************)
Eps6Den == 1000000
Eps5Den == 100000

(***************************************************************************)
(* Exact fractions <<n, d>> with d > 0, kept in lowest terms.              *)
(***************************************************************************)
RECURSIVE GCD(_, _)
GCD(a, b) == IF b = 0 THEN a ELSE GCD(b, a % b)

Rat(n, d) == LET g == GCD(n, d) IN IF g = 0 THEN <<0, 1>> ELSE <<n \div g, d \div g>>
Zero == <<0, 1>>
One == <<1, 1>>
RatAdd(a, b) == Rat(a[1] * b[2] + b[1] * a[2], a[2] * b[2])
RatMul(a, b) == Rat(a[1] * b[1], a[2] * b[2])
RatDiv(a, b) == Rat(a[1] * b[2], a[2] * b[1])
RatLess(a, b) == a[1] * b[2] < b[1] * a[2]
RatLeq(a, b) == a[1] * b[2] <= b[1] * a[2]
RatMax(S) == CHOOSE m \in S : \A v \in S : RatLeq(v, m)

RECURSIVE RatSum(_, _)
RatSum(f, S) == IF S = {} THEN Zero
                ELSE LET i == CHOOSE j \in S : TRUE
                     IN RatAdd(f[i], RatSum(f, S \ {i}))

RECURSIVE IntSum(_, _)
IntSum(f, S) == IF S = {} THEN 0
                ELSE LET i == CHOOSE j \in S : TRUE
                     IN f[i] + IntSum(f, S \ {i})

Min(a, b) == IF a < b THEN a ELSE b
Range(q) == {q[i] : i \in 1..Len(q)}

(***************************************************************************)
(* Domain types (Element, Device, User, Properties).                       *)
(***************************************************************************)
dot(p, q) == p[1] * q[1] + p[2] * q[2] + p[3] * q[3] + p[4] * q[4]

calculate_compatibility(device, element) == dot(device.properties, element.properties)

user_has_access(element, user) == user.name \notin element.denied

min_area(element) == element.min_width * element.min_height
max_area(element) == element.max_width * element.max_height
area(device) == device.width * device.height

(***************************************************************************)
(* list.sort(key=lambda x: x.name) on a list of records with distinct      *)
(* names.                                                                  *)
(***************************************************************************)
RECURSIVE SortByName(_)
SortByName(list) ==
    IF list = <<>> THEN <<>>
    ELSE LET i == CHOOSE j \in 1..Len(list) :
                      \A k \in 1..Len(list) : list[j].name <= list[k].name
             rest == [k \in 1..(Len(list) - 1) |-> IF k < i THEN list[k] ELSE list[k + 1]]
         IN <<list[i]>> \o SortByName(rest)

EIdx == 1..Len(elements)
DIdx == 1..Len(devices)
UIdx == 1..Len(users)

(***************************************************************************)
(* pre_process_objects.normalized: divide a vector by its maximum unless   *)
(* the maximum is not above 1e-6.                                          *)
(***************************************************************************)
normalized_nodiv(vector) == vector

normalized(vector) ==
    LET v_max == RatMax({vector[i] : i \in DOMAIN vector})
    IN IF v_max[1] * Eps6Den > v_max[2]
       THEN [i \in DOMAIN vector |-> RatDiv(vector[i], v_max)]
       ELSE vector

BelowEps6(v) == v[1] * Eps6Den < v[2]
BelowEps5(v) == v[1] * Eps5Den < v[2]

(***************************************************************************)
(* Inputs.  An element is a record name, importance, min/max width and     *)
(* height, properties and the users it denies access to; a device has a    *)
(* name, width, height, properties and its set of authorized users; a user *)
(* has a name and the importance overrides keyed by element name.          *)
(***************************************************************************)
Element(n, imp, mw, mh, xw, xh, props, den) ==
    [name |-> n, importance |-> imp, min_width |-> mw, min_height |-> mh,
     max_width |-> xw, max_height |-> xh, properties |-> props, denied |-> den]

Device(n, w, h, props, us) ==
    [name |-> n, width |-> w, height |-> h, properties |-> props, users |-> us]

User(n, ov) == [name |-> n, importance |-> ov]

NoOverride == [n \in {} |-> 0]

Lists(S1, S2) == {<<>>} \cup {<<a>> : a \in S1} \cup {<<b, a>> : a \in S1, b \in S2}
NonEmptyLists(S1, S2) == {<<a>> : a \in S1} \cup {<<b, a>> : a \in S1, b \in S2}

\* Access scenarios: three users, at most one importance override, unit
\* sized elements, devices that hold two elements, any authorized user sets.
AccessElements ==
    NonEmptyLists({Element(1, i, 1, 1, 1, 1, <<1, 0, 0, 0>>, {}) : i \in 0..MaxImportance},
                  {Element(2, i, 1, 1, 1, 1, <<1, 0, 0, 0>>, {}) : i \in 0..MaxImportance})
AccessDevices ==
    NonEmptyLists({Device(1, 2, 1, <<5, 0, 0, 0>>, us) : us \in SUBSET {1, 2, 3}},
                  {Device(2, 2, 1, <<5, 0, 0, 0>>, us) : us \in SUBSET {1, 2, 3}})
AccessUsers(els) ==
    {<<User(3, NoOverride), User(1, NoOverride), User(2, NoOverride)>>}
    \cup {[k \in 1..3 |-> User(k, IF k = u THEN (els[j].name :> v) ELSE NoOverride)] :
            u \in 1..3, j \in 1..Len(els), v \in 0..MaxImportance}

\* Size scenarios: one user, one device, element and device dimensions vary,
\* the first element's properties vary.
SizeProps == {<<1, 0, 0, 0>>, <<2, 0, 0, 0>>, <<0, 1, 0, 0>>}
SizeElements ==
    NonEmptyLists({Element(1, 1, mw, mh, xw, mh, p, {}) :
                       mw \in 1..MaxDim, mh \in 1..MaxDim, xw \in 1..MaxDim, p \in SizeProps},
                  {Element(2, 1, mw, mh, xw, mh, <<1, 0, 0, 0>>, {}) :
                       mw \in 1..MaxDim, mh \in 1..MaxDim, xw \in 1..MaxDim})
SizeDevices == {<<Device(1, w, h, <<5, 0, 0, 0>>, {1})>> : w \in 1..MaxDim, h \in 1..MaxDim}

\* Denial scenarios: two users, one element that denies some of them.
DenyElements == {<<Element(1, 1, 1, 1, 1, 1, <<1, 0, 0, 0>>, den)>> : den \in SUBSET {1, 2}}
DenyDevices == {<<Device(1, 1, 1, <<5, 0, 0, 0>>, us)>> : us \in SUBSET {1, 2}}

\* Degenerate scenarios: at least one of the three lists is empty.
SmallElements == Lists({Element(1, 1, 1, 1, 1, 1, <<1, 0, 0, 0>>, {})},
                       {Element(2, 1, 1, 1, 1, 1, <<1, 0, 0, 0>>, {})})
SmallDevices(us) == Lists({Device(1, 1, 1, <<5, 0, 0, 0>>, us)},
                          {Device(2, 1, 1, <<5, 0, 0, 0>>, us)})
SmallUsers == {<<>>, <<User(1, NoOverride)>>}

Init ==
    /\ \/ /\ elements \in AccessElements
          /\ devices \in AccessDevices
          /\ users \in AccessUsers(elements)
       \/ /\ elements \in SizeElements
          /\ devices \in SizeDevices
          /\ users = <<User(1, NoOverride)>>
       \/ /\ elements \in DenyElements
          /\ devices \in DenyDevices
          /\ users = <<User(2, NoOverride), User(1, NoOverride)>>
       \/ /\ users \in SmallUsers
          /\ elements \in SmallElements
          /\ devices \in SmallDevices({u.name : u \in {users[k] : k \in 1..Len(users)}})
          /\ (users = <<>> \/ elements = <<>> \/ devices = <<>>)
    /\ pc = "call"
    /\ loop_d = 0
    /\ loop_e = 0
    /\ element_user_imp = <<>>
    /\ element_device_comp = <<>>
    /\ element_device_imp = <<>>
    /\ user_device_access = <<>>
    /\ user_element_access = <<>>
    /\ element_device_access = <<>>
    /\ model_built = FALSE
    /\ status = "NONE"
    /\ x = <<>>
    /\ s = <<>>
    /\ output = <<>>
    /\ time_taken = <<>>
    /\ optimizer_size = [n \in {elements[k].name : k \in 1..Len(elements)} |-> NoOverride]
    /\ calls = 1
    /\ first_result = <<>>

(***************************************************************************)
(* The all-empty mapping: every device of the list keyed to an empty list. *)
(***************************************************************************)
EmptyOutput_nokeys(devs) == [n \in {} |-> <<>>]

EmptyOutput(devs) == [n \in {devs[k].name : k \in 1..Len(devs)} |-> <<>>]

matrices == <<element_user_imp, element_device_comp, element_device_imp,
              user_device_access, user_element_access>>
solver == <<element_device_access, model_built, status, x, s>>
result == <<output, time_taken, optimizer_size>>
history == <<calls, first_result>>

(***************************************************************************)
(* optimize, lines 41-50: sort the three lists in place; with an empty     *)
(* list return the all-empty mapping and 0.0.                              *)
(***************************************************************************)
OptimizeInsufficient ==
    /\ pc = "call"
    /\ elements' = SortByName(elements)
    /\ devices' = SortByName(devices)
    /\ users' = SortByName(users)
    /\ (Len(users) = 0 \/ Len(devices) = 0 \/ Len(elements) = 0)
    /\ output' = EmptyOutput(devices')
    /\ time_taken' = <<0>>
    /\ pc' = "returned"
    /\ UNCHANGED <<loop_d, loop_e, matrices, solver, optimizer_size>>
    /\ UNCHANGED history

(***************************************************************************)
(* pre_process_objects, lines 283-349: the matrices before refinement.     *)
(***************************************************************************)
RawImportance(els, us) ==
    [e \in 1..Len(els), u \in 1..Len(us) |->
        IF els[e].name \in DOMAIN us[u].importance
        THEN us[u].importance[els[e].name]
        ELSE els[e].importance]

Compatibility(els, devs) ==
    LET col(d) == normalized([e \in 1..Len(els) |->
                                 Rat(calculate_compatibility(devs[d], els[e]), 1)])
    IN [e \in 1..Len(els), d \in 1..Len(devs) |-> col(d)[e]]

UserDeviceAccess(us, devs) ==
    [u \in 1..Len(us), d \in 1..Len(devs) |-> us[u].name \in devs[d].users]

GrantedAccess(els, us) ==
    [u \in 1..Len(us), e \in 1..Len(els) |-> user_has_access(els[e], us[u])]

UserImportance(els, us) ==
    LET raw == RawImportance(els, us)
        acc == GrantedAccess(els, us)
        col(u) == normalized([e \in 1..Len(els) |->
                                 IF acc[u, e] THEN Rat(raw[e, u], 1) ELSE Zero])
    IN [e \in 1..Len(els), u \in 1..Len(us) |-> col(u)[e]]

UserElementAccess(els, us) ==
    LET imp == UserImportance(els, us)
        acc == GrantedAccess(els, us)
    IN [u \in 1..Len(us), e \in 1..Len(els) |-> acc[u, e] /\ ~BelowEps6(imp[e, u])]

DeviceImportance(els, devs, us) ==
    LET imp == UserImportance(els, us)
        uda == UserDeviceAccess(us, devs)
        on(d) == {u \in 1..Len(us) : uda[u, d]}
        total(e, d) == RatSum([u \in 1..Len(us) |-> imp[e, u]], on(d))
    IN [e \in 1..Len(els), d \in 1..Len(devs) |->
           IF Cardinality(on(d)) > 0
           THEN RatDiv(total(e, d), Rat(Cardinality(on(d)), 1))
           ELSE total(e, d)]

OptimizePreProcess ==
    /\ pc = "call"
    /\ elements' = SortByName(elements)
    /\ devices' = SortByName(devices)
    /\ users' = SortByName(users)
    /\ ~(Len(users) = 0 \/ Len(devices) = 0 \/ Len(elements) = 0)
    /\ element_user_imp' = UserImportance(elements', users')
    /\ element_device_comp' = Compatibility(elements', devices')
    /\ user_device_access' = UserDeviceAccess(users', devices')
    /\ user_element_access' = UserElementAccess(elements', users')
    /\ element_device_imp' = DeviceImportance(elements', devices', users')
    /\ loop_d' = 1
    /\ loop_e' = 1
    /\ pc' = "refine"
    /\ UNCHANGED <<solver, result>>
    /\ UNCHANGED history

(***************************************************************************)
(* pre_process_objects, lines 352-360: the refinement loop.  One step is   *)
(* one iteration of the inner loop over the elements; the device's column  *)
(* is normalized after its last element.                                   *)
(***************************************************************************)
comp(uea, uda, e, d) == [u \in UIdx |-> uea[u, e] /\ uda[u, d]]

CountNonzero(vec) == Cardinality({i \in DOMAIN vec : vec[i]})

RefineCondition_none(uea, uda, e, d) ==
    /\ CountNonzero([u \in UIdx |-> uda[u, d]]) > 1
    /\ CountNonzero(comp(uea, uda, e, d)) = 0

RefineCondition(uea, uda, e, d) ==
    /\ CountNonzero([u \in UIdx |-> uda[u, d]]) > 1
    /\ CountNonzero(comp(uea, uda, e, d)) = 1

RefineRevoked_single(uea, uda, e, d) == {u \in UIdx : comp(uea, uda, e, d)[u]}

RefineRevoked(uea, uda, e, d) == {u \in UIdx : ~comp(uea, uda, e, d)[u]}

RefineElement ==
    /\ pc = "refine"
    /\ loop_d <= Len(devices)
    /\ loop_e <= Len(elements)
    /\ IF RefineCondition(user_element_access, user_device_access, loop_e, loop_d)
       THEN /\ element_device_imp' =
                  [element_device_imp EXCEPT ![loop_e, loop_d] = Zero]
            /\ user_element_access' =
                  [u \in UIdx, e \in EIdx |->
                      IF e = loop_e /\ u \in RefineRevoked(user_element_access,
                                                          user_device_access, loop_e, loop_d)
                      THEN FALSE
                      ELSE user_element_access[u, e]]
       ELSE UNCHANGED <<element_device_imp, user_element_access>>
    /\ loop_e' = loop_e + 1
    /\ UNCHANGED <<elements, devices, users, pc, loop_d, element_user_imp,
                   element_device_comp, user_device_access, solver, result>>
    /\ UNCHANGED history

RefineNormalize ==
    /\ pc = "refine"
    /\ loop_d <= Len(devices)
    /\ loop_e > Len(elements)
    /\ LET col == normalized([e \in EIdx |-> element_device_imp[e, loop_d]])
       IN element_device_imp' =
              [e \in EIdx, d \in DIdx |->
                  IF d = loop_d THEN col[e] ELSE element_device_imp[e, d]]
    /\ loop_d' = loop_d + 1
    /\ loop_e' = 1
    /\ pc' = IF loop_d = Len(devices) THEN "build" ELSE "refine"
    /\ UNCHANGED <<elements, devices, users, element_user_imp, element_device_comp,
                   user_device_access, user_element_access, solver, result>>
    /\ UNCHANGED history

(***************************************************************************)
(* optimize, lines 99-108: element_device_access[e, d] is cleared when no  *)
(* user has access to both the device and the element.                     *)
(***************************************************************************)
PrivacyAccess_none(uea, uda) == [e \in EIdx, d \in DIdx |-> TRUE]

PrivacyAccess(uea, uda) ==
    [e \in EIdx, d \in DIdx |-> \E u \in UIdx : uda[u, d] /\ uea[u, e]]

(***************************************************************************)
(* optimize, lines 112-129: the pairs left accessible after the pruning of *)
(* zero importance and zero compatibility pairs.  Every pair cleared here  *)
(* carries a constraint x[e, d] == 0.                                      *)
(***************************************************************************)
PrunedAccess(uea, uda, imp, cmp) ==
    LET eda == PrivacyAccess(uea, uda)
    IN [e \in EIdx, d \in DIdx |->
           /\ eda[e, d]
           /\ ~BelowEps5(imp[e, d])
           /\ ~BelowEps5(cmp[e, d])]

(***************************************************************************)
(* optimize, lines 84-88: constraint (11) on the minimum dimensions.       *)
(***************************************************************************)
MinSizeExceeds(element, device) ==
    element.min_width > device.width \/ element.min_height > device.height

(***************************************************************************)
(* optimize, lines 56-217: build the model.                                *)
(***************************************************************************)
BuildModel ==
    /\ pc = "build"
    /\ element_device_access' = PrunedAccess(user_element_access, user_device_access,
                                             element_device_imp, element_device_comp)
    /\ model_built' = TRUE
    /\ pc' = "solve"
    /\ UNCHANGED <<elements, devices, users, loop_d, loop_e, matrices,
                   status, x, s, result>>
    /\ UNCHANGED history

(***************************************************************************)
(* The feasible region of the model over the decision variables x and s.   *)
(* A candidate maps every pair <<e, d>> to <<x[e, d], s[e, d]>>.           *)
(***************************************************************************)
SizeLow(e, d) == min_area(elements[e])
SizeHigh_area(e, d) == area(devices[d])

SizeHigh(e, d) == Min(max_area(elements[e]), area(devices[d]))

\* lines 87, 91, 94, 95, 116, 122, 128: the values one pair may take
PairValues(e, d) ==
    {<<0, 0>>} \cup
    IF element_device_access[e, d] /\ ~MinSizeExceeds(elements[e], devices[d])
    THEN {<<1, sz>> : sz \in SizeLow(e, d)..SizeHigh(e, d)}
    ELSE {}

\* line 81: the capacity constraint of one device
CapacityNone(f, d) == TRUE

Capacity(f, d) ==
    IntSum([e \in EIdx |-> f[<<e, d>>][2]], EIdx) <= area(devices[d])

RECURSIVE Candidates(_)
Candidates(P) ==
    IF P = {} THEN {[q \in {} |-> <<0, 0>>]}
    ELSE LET p == CHOOSE q \in P : TRUE
         IN {g @@ (p :> v) : g \in Candidates(P \ {p}), v \in PairValues(p[1], p[2])}

Feasible == {f \in Candidates(EIdx \X DIdx) : \A d \in DIdx : Capacity(f, d)}

(***************************************************************************)
(* optimize, lines 139-217: the weighted objective of a candidate, with    *)
(* the auxiliary variables at the largest values their constraints allow.  *)
(***************************************************************************)
UserElements(u) == {e \in EIdx : user_element_access[u, e]}
UserDevices(u) == {d \in DIdx : user_device_access[u, d]}

user_has_element(f, u, e) ==
    Min(IntSum([d \in DIdx |-> f[<<e, d>>][1]], UserDevices(u)), 1)

user_num_unique_elements(f, u) ==
    IntSum([e \in EIdx |-> user_has_element(f, u, e)], UserElements(u))

RatMin(S) == CHOOSE m \in S : \A v \in S : RatLeq(m, v)

min_ratio_unique_elements(f) ==
    RatMin({Rat(user_num_unique_elements(f, u), Cardinality(UserElements(u))) :
               u \in {w \in UIdx : UserElements(w) # {}}})

quality_term(f) ==
    RatSum([d \in DIdx |->
               RatDiv(RatSum([e \in EIdx |->
                                 RatMul(RatMul(element_device_comp[e, d],
                                               element_device_imp[e, d]),
                                        Rat(f[<<e, d>>][2], 1))], EIdx),
                      Rat(area(devices[d]), 1))], DIdx)

completeness_term(f) ==
    RatAdd(RatSum([u \in UIdx |->
                      Rat(user_num_unique_elements(f, u),
                          Cardinality(UserElements(u)) * Len(users))],
                  {u \in UIdx : UserDevices(u) # {} /\ UserElements(u) # {}}),
           min_ratio_unique_elements(f))

Objective(f) ==
    RatAdd(RatMul(<<4, 5>>, quality_term(f)), RatMul(<<1, 5>>, completeness_term(f)))

\* min_ratio_unique_elements has no upper bound when no user has an element
Unbounded == \A u \in UIdx : UserElements(u) = {}

Optimal ==
    LET F == Feasible
        best == RatMax({Objective(f) : f \in F})
    IN {f \in F : Objective(f) = best}

(***************************************************************************)
(* optimize, lines 219-229: solve; a status other than OPTIMAL returns the *)
(* all-empty mapping.  An interrupted solve leaves some feasible incumbent *)
(* in the variables.                                                       *)
(***************************************************************************)
NoValues == [q \in {} |-> <<0, 0>>]

SolveOptimal ==
    /\ pc = "solve"
    /\ ~Unbounded
    /\ \E f \in Optimal, t \in 0..MaxElapsed :
          /\ status' = "OPTIMAL"
          /\ x' = [q \in DOMAIN f |-> f[q][1]]
          /\ s' = [q \in DOMAIN f |-> f[q][2]]
          /\ time_taken' = <<t>>
    /\ output' = EmptyOutput(devices)
    /\ pc' = "fill"
    /\ UNCHANGED <<elements, devices, users, loop_d, loop_e, matrices,
                   element_device_access, model_built, optimizer_size>>
    /\ UNCHANGED history

SolveNotOptimal_partial ==
    /\ pc = "solve"
    /\ \E f \in (IF Unbounded THEN {NoValues} ELSE Feasible), t \in 0..MaxElapsed :
          /\ status' = IF Unbounded THEN "UNBOUNDED" ELSE "INTERRUPTED"
          /\ x' = [q \in DOMAIN f |-> f[q][1]]
          /\ s' = [q \in DOMAIN f |-> f[q][2]]
          /\ time_taken' = <<t>>
          /\ output' = [n \in DOMAIN EmptyOutput(devices) |->
                           LET d == CHOOSE k \in DIdx : devices[k].name = n
                               es == {e \in EIdx : <<e, d>> \in DOMAIN f /\ f[<<e, d>>][1] = 1}
                           IN IF es = {} THEN <<>>
                              ELSE <<elements[CHOOSE e \in es : TRUE].name>>]
    /\ pc' = "returned"
    /\ UNCHANGED <<elements, devices, users, loop_d, loop_e, matrices,
                   element_device_access, model_built, optimizer_size>>
    /\ UNCHANGED history

SolveNotOptimal ==
    /\ pc = "solve"
    /\ \E f \in (IF Unbounded THEN {NoValues} ELSE Feasible), t \in 0..MaxElapsed :
          /\ status' = IF Unbounded THEN "UNBOUNDED" ELSE "INTERRUPTED"
          /\ x' = [q \in DOMAIN f |-> f[q][1]]
          /\ s' = [q \in DOMAIN f |-> f[q][2]]
          /\ time_taken' = <<t>>
    /\ output' = EmptyOutput(devices)
    /\ pc' = "returned"
    /\ UNCHANGED <<elements, devices, users, loop_d, loop_e, matrices,
                   element_device_access, model_built, optimizer_size>>
    /\ UNCHANGED history

(***************************************************************************)
(* optimize, lines 268-280: copy the solved values into the mapping.  The  *)
(* loop visits x.items() in the order of the dictionary, which the         *)
(* language leaves unspecified: any order of the keys.                     *)
(***************************************************************************)
ItemOrders(K) ==
    {q \in [1..Cardinality(K) -> K] : \A i, j \in 1..Cardinality(K) : q[i] = q[j] => i = j}

Assigned(xs, key) == xs[key] = 1

RECURSIVE Appended(_, _, _)
Appended(items, xs, d) ==
    IF items = <<>> THEN <<>>
    ELSE LET key == Head(items)
         IN (IF key[2] = d /\ Assigned(xs, key) THEN <<elements[key[1]].name>> ELSE <<>>)
            \o Appended(Tail(items), xs, d)

SizeEntries(xs, ss, e) ==
    LET ds == {d \in DIdx : Assigned(xs, <<e, d>>)}
    IN [n \in {devices[d].name : d \in ds} |->
           ss[<<e, CHOOSE d \in ds : devices[d].name = n>>]]

FillOutput ==
    /\ pc = "fill"
    /\ \E items \in ItemOrders(DOMAIN x) :
          output' = [n \in DOMAIN output |->
                        Appended(items, x, CHOOSE d \in DIdx : devices[d].name = n)]
    /\ optimizer_size' =
          [n \in DOMAIN optimizer_size |->
              LET e == CHOOSE k \in EIdx : elements[k].name = n
              IN SizeEntries(x, s, e) @@ optimizer_size[n]]
    /\ pc' = "returned"
    /\ UNCHANGED <<elements, devices, users, loop_d, loop_e, matrices, solver, time_taken>>
    /\ UNCHANGED history

Next ==
    \/ OptimizeInsufficient
    \/ OptimizePreProcess
    \/ RefineElement
    \/ RefineNormalize
    \/ BuildModel
    \/ SolveOptimal
    \/ SolveNotOptimal
    \/ FillOutput

Spec == Init /\ [][Next]_vars

(***************************************************************************)
(* The state before a call: no local of optimize or pre_process_objects    *)
(* has a value, no element carries a size annotation.                      *)
(***************************************************************************)
StartState ==
    /\ pc = "call"
    /\ loop_d = 0
    /\ loop_e = 0
    /\ element_user_imp = <<>>
    /\ element_device_comp = <<>>
    /\ element_device_imp = <<>>
    /\ user_device_access = <<>>
    /\ user_element_access = <<>>
    /\ element_device_access = <<>>
    /\ model_built = FALSE
    /\ status = "NONE"
    /\ x = <<>>
    /\ s = <<>>
    /\ output = <<>>
    /\ time_taken = <<>>
    /\ optimizer_size = [n \in {elements[k].name : k \in 1..Len(elements)} |-> NoOverride]
    /\ calls = 1
    /\ first_result = <<>>

(***************************************************************************)
(* pre_process_objects called on its own, lines 283-349, with the lists in *)
(* the order the caller gives them (only optimize sorts them).             *)
(***************************************************************************)
PreProcessDirect ==
    /\ pc = "call"
    /\ element_user_imp' = UserImportance(elements, users)
    /\ element_device_comp' = Compatibility(elements, devices)
    /\ user_device_access' = UserDeviceAccess(users, devices)
    /\ user_element_access' = UserElementAccess(elements, users)
    /\ element_device_imp' = DeviceImportance(elements, devices, users)
    /\ loop_d' = 1
    /\ loop_e' = 1
    /\ pc' = "refine"
    /\ UNCHANGED <<elements, devices, users, solver, result, history>>

(***************************************************************************)
(* The matrices pre_process_objects returned (lines 370-371), keyed by the *)
(* names of the objects instead of their positions in the lists.           *)
(***************************************************************************)
ElementNames == {elements[e].name : e \in EIdx}
DeviceNames == {devices[d].name : d \in DIdx}
UserNames == {users[u].name : u \in UIdx}
ElementAt(n) == CHOOSE e \in EIdx : elements[e].name = n
DeviceAt(n) == CHOOSE d \in DIdx : devices[d].name = n
UserAt(n) == CHOOSE u \in UIdx : users[u].name = n

NamedResult ==
    [user_element_access |->
        [un \in UserNames, en \in ElementNames |->
            user_element_access[UserAt(un), ElementAt(en)]],
     element_device_imp |->
        [en \in ElementNames, dn \in DeviceNames |->
            element_device_imp[ElementAt(en), DeviceAt(dn)]],
     element_device_comp |->
        [en \in ElementNames, dn \in DeviceNames |->
            element_device_comp[ElementAt(en), DeviceAt(dn)]]]

Orderings(list) ==
    {q \in [1..Len(list) -> Range(list)] : \A i, j \in 1..Len(list) : q[i] = q[j] => i = j}

(***************************************************************************)
(* A second call of pre_process_objects, lines 283-349, on the same        *)
(* elements and users and another ordering of the same devices; the result *)
(* of the first call is kept for comparison.                               *)
(***************************************************************************)
PreProcessReordered ==
    /\ pc = "build"
    /\ first_result = <<>>
    /\ first_result' = <<NamedResult>>
    /\ devices' \in Orderings(devices) \ {devices}
    /\ element_user_imp' = UserImportance(elements, users)
    /\ element_device_comp' = Compatibility(elements, devices')
    /\ user_device_access' = UserDeviceAccess(users, devices')
    /\ user_element_access' = UserElementAccess(elements, users)
    /\ element_device_imp' = DeviceImportance(elements, devices', users)
    /\ loop_d' = 1
    /\ loop_e' = 1
    /\ pc' = "refine"
    /\ UNCHANGED <<elements, users, solver, result, calls>>

InitOrder ==
    /\ elements \in AccessElements
    /\ devices \in AccessDevices
    /\ users \in AccessUsers(elements)
    /\ StartState

NextOrder ==
    \/ PreProcessDirect
    \/ RefineElement
    \/ RefineNormalize
    \/ PreProcessReordered

SpecOrder == InitOrder /\ [][NextOrder]_vars

(***************************************************************************)
(* optimize called again, line 25, by a caller that keeps the Element      *)
(* objects and the users and passes another device list.  The locals of    *)
(* the previous call are gone; the _optimizer_size attribute of the        *)
(* elements stays as the previous call left it (lines 276-278).            *)
(***************************************************************************)
OptimizeAgain ==
    /\ pc = "returned"
    /\ calls < MaxCalls
    /\ calls' = calls + 1
    /\ devices' \in SizeDevices \cup {<<>>}
    /\ pc' = "call"
    /\ loop_d' = 0
    /\ loop_e' = 0
    /\ element_user_imp' = <<>>
    /\ element_device_comp' = <<>>
    /\ element_device_imp' = <<>>
    /\ user_device_access' = <<>>
    /\ user_element_access' = <<>>
    /\ element_device_access' = <<>>
    /\ model_built' = FALSE
    /\ status' = "NONE"
    /\ x' = <<>>
    /\ s' = <<>>
    /\ output' = <<>>
    /\ time_taken' = <<>>
    /\ UNCHANGED <<elements, users, optimizer_size, first_result>>

InitCalls ==
    /\ elements \in SizeElements
    /\ devices \in SizeDevices
    /\ users = <<User(1, NoOverride)>>
    /\ StartState

NextCalls ==
    \/ OptimizeInsufficient
    \/ OptimizePreProcess
    \/ RefineElement
    \/ RefineNormalize
    \/ BuildModel
    \/ SolveOptimal
    \/ SolveNotOptimal
    \/ FillOutput
    \/ OptimizeAgain

SpecCalls == InitCalls /\ [][NextCalls]_vars

(***************************************************************************)
(* Properties.                                                             *)
(***************************************************************************)
Listed(e, d) == elements[e].name \in Range(output[devices[d].name])
SharedUser(e, d) == \E u \in UIdx : user_device_access[u, d] /\ user_element_access[u, e]
Returned == pc = "returned"
Solved == pc = "returned" /\ status = "OPTIMAL"
RecordedSize(e, d) == optimizer_size[elements[e].name][devices[d].name]
AllEmpty(out) == \A n \in DOMAIN out : out[n] = <<>>

\* C1: privacy invariant.  In every mapping returned after preprocessing, an
\* element is not listed under a device when no single user has both
\* user_device_access to the device and user_element_access to the element
\* in the matrices pre_process_objects returned.
C1_Privacy ==
    (Returned /\ model_built) =>
        \A e \in EIdx, d \in DIdx : ~SharedUser(e, d) => ~Listed(e, d)

\* An optimal solve in which only the privacy constraint keeps an element
\* off a device: importance and compatibility are positive, the dimensions
\* fit, and no user shares the pair.
C1_Witness ==
    /\ Solved
    /\ \E e \in EIdx, d \in DIdx :
          /\ ~SharedUser(e, d)
          /\ ~BelowEps5(element_device_imp[e, d])
          /\ ~BelowEps5(element_device_comp[e, d])
          /\ ~MinSizeExceeds(elements[e], devices[d])
          /\ ~Listed(e, d)

\* C2: capacity invariant.  For every device of a returned mapping the
\* sizes recorded for that device on the elements of its list sum to at
\* most the device's area.
C2_Capacity ==
    Returned =>
        \A d \in DIdx :
            IntSum([e \in EIdx |-> RecordedSize(e, d)], {e \in EIdx : Listed(e, d)})
                <= area(devices[d])

\* A device that lists two elements whose largest allowed sizes together
\* exceed its area.
C2_Witness ==
    /\ Solved
    /\ \E d \in DIdx :
          LET es == {e \in EIdx : Listed(e, d)}
          IN /\ Cardinality(es) = 2
             /\ IntSum([e \in EIdx |-> SizeHigh(e, d)], es) > area(devices[d])

\* C3: size bounds.  Every element listed under a device has a recorded
\* size between its minimum area and the smaller of its maximum area and
\* the device's area; an element whose minimum area exceeds the device's
\* area is not listed under it.
C3_SizeBounds ==
    Returned =>
        \A e \in EIdx, d \in DIdx :
            /\ Listed(e, d) =>
                  /\ min_area(elements[e]) <= RecordedSize(e, d)
                  /\ RecordedSize(e, d) <= Min(max_area(elements[e]), area(devices[d]))
            /\ min_area(elements[e]) > area(devices[d]) => ~Listed(e, d)

\* One device that lists an element whose maximum area is below the
\* device's area, next to an element too large for the device.
C3_Witness ==
    /\ Solved
    /\ \E d \in DIdx, e1 \in EIdx, e2 \in EIdx :
          /\ Listed(e1, d)
          /\ max_area(elements[e1]) < area(devices[d])
          /\ min_area(elements[e2]) > area(devices[d])
          /\ ~Listed(e2, d)

\* C4: complete key set.  On every return path the keys of the returned
\* mapping are exactly the input devices.
C4_KeySet ==
    Returned => DOMAIN output = {devices[d].name : d \in DIdx}

\* A return on the insufficient-input path (no users, no model built) with
\* two devices in the list.
C4_Witness ==
    /\ Returned
    /\ Len(devices) = 2
    /\ ~model_built
    /\ Len(users) = 0

\* C5: no-solution outcome.  A return without an optimal solution maps
\* every device to an empty list and leaves the size annotations as they
\* were; with an empty input list no model is built, the solver is not
\* invoked and the elapsed time is 0.
C5_NoSolution ==
    [][(pc' = "returned" /\ status' # "OPTIMAL") =>
          /\ AllEmpty(output')
          /\ optimizer_size' = optimizer_size
          /\ (Len(elements') = 0 \/ Len(devices') = 0 \/ Len(users') = 0) =>
                (~model_built' /\ status' = "NONE" /\ time_taken' = <<0>>)]_vars

\* An interrupted solve whose incumbent places an element, returned as the
\* all-empty mapping after a positive elapsed time.
C5_Witness ==
    /\ Returned
    /\ status = "INTERRUPTED"
    /\ \E q \in DOMAIN x : x[q] = 1
    /\ time_taken # <<0>>
    /\ AllEmpty(output)

\* C6: result extraction.  After an optimal solve every device lists
\* exactly the elements with x[e, d] = 1, each once, in ascending order of
\* element name, and each listed element records s[e, d] under the
\* device's name.
C6_Extraction ==
    Solved =>
        \A d \in DIdx :
            LET list == output[devices[d].name]
            IN /\ Range(list) = {elements[e].name : e \in {k \in EIdx : x[<<k, d>>] = 1}}
               /\ \A i, j \in 1..Len(list) : i < j => list[i] < list[j]
               /\ \A e \in EIdx : x[<<e, d>>] = 1 => RecordedSize(e, d) = s[<<e, d>>]

\* C7: normalization bound.  The three importance and compatibility
\* matrices returned by pre_process_objects have every entry in [0, 1];
\* normalizing a device's importance column whose maximum is not above
\* 1e-6 leaves the column as it was.
InUnit(v) == RatLeq(Zero, v) /\ RatLeq(v, One)

UnitMatrices ==
    /\ \A e \in EIdx, u \in UIdx : InUnit(element_user_imp[e, u])
    /\ \A e \in EIdx, d \in DIdx : InUnit(element_device_comp[e, d])
    /\ \A e \in EIdx, d \in DIdx : InUnit(element_device_imp[e, d])

PositiveUsers(e) == {u \in UIdx : RawImportance(elements, users)[e, u] > 0}
DeviceUsers(d) == {u \in UIdx : users[u].name \in devices[d].users}

C8_OverrideDominance ==
    Returned =>
        \A e \in EIdx :
            /\ (elements[e].importance = 0 /\ Cardinality(PositiveUsers(e)) = 1) =>
                  \A d \in DIdx : Listed(e, d) => DeviceUsers(d) = PositiveUsers(e)
            /\ PositiveUsers(e) = {} => \A d \in DIdx : ~Listed(e, d)

\* The overriding user's own device lists the element while a device the
\* user shares with another user does not.
C8_Witness ==
    /\ Solved
    /\ \E e \in EIdx, d1 \in DIdx, d2 \in DIdx :
          /\ elements[e].importance = 0
          /\ Cardinality(PositiveUsers(e)) = 1
          /\ Listed(e, d1)
          /\ DeviceUsers(d1) = PositiveUsers(e)
          /\ PositiveUsers(e) \subseteq DeviceUsers(d2)
          /\ Cardinality(DeviceUsers(d2)) > 1
          /\ ~Listed(e, d2)

\* C9 as stated: a refinement step on a device with more than one
\* authorized user, exactly one of whom has access to the element, zeroes
\* element_device_imp[e, d], revokes the element access of that one user
\* and leaves the element access of every other user unchanged.
RefineStepApplies ==
    /\ pc = "refine"
    /\ loop_d <= Len(devices)
    /\ loop_e <= Len(elements)
    /\ RefineCondition(user_element_access, user_device_access, loop_e, loop_d)

SingleUser == CHOOSE u \in UIdx : user_element_access[u, loop_e] /\ user_device_access[u, loop_d]

C9_RevokesSingleUser ==
    [][RefineStepApplies =>
          /\ element_device_imp'[loop_e, loop_d] = Zero
          /\ ~user_element_access'[SingleUser, loop_e]
          /\ \A u \in UIdx \ {SingleUser} :
                user_element_access'[u, loop_e] = user_element_access[u, loop_e]]_vars

\* C9 amended: such a refinement step zeroes element_device_imp[e, d], keeps
\* the element access of the one user holding both accesses and revokes the
\* access to e of every other user; the access to other elements is
\* unchanged.
C9_RevokesOtherUsers ==
    [][RefineStepApplies =>
          /\ element_device_imp'[loop_e, loop_d] = Zero
          /\ user_element_access'[SingleUser, loop_e]
          /\ \A u \in UIdx \ {SingleUser} : ~user_element_access'[u, loop_e]
          /\ \A u \in UIdx, e \in EIdx \ {loop_e} :
                user_element_access'[u, e] = user_element_access[u, e]]_vars

\* The state after a refinement step that took access away from a user who
\* is not authorized on the device and had a positive importance for the
\* element.
C9_Witness ==
    /\ pc = "refine"
    /\ loop_d <= Len(devices)
    /\ loop_e > 1
    /\ RefineCondition(user_element_access, user_device_access, loop_e - 1, loop_d)
    /\ element_device_imp[loop_e - 1, loop_d] = Zero
    /\ \E u \in UIdx :
          /\ ~user_device_access[u, loop_d]
          /\ RatLess(Zero, element_user_imp[loop_e - 1, u])
          /\ ~user_element_access[u, loop_e - 1]

\* C10: all-users privacy.  An element is listed under a device only if
\* every user authorized on the device has access to the element.
C10_AllUsersPrivacy ==
    (Returned /\ model_built) =>
        \A e \in EIdx, d \in DIdx :
            Listed(e, d) =>
                \A u \in UIdx : user_device_access[u, d] => user_element_access[u, e]

\* C11: device-order independence of preprocessing.  Two calls of
\* pre_process_objects on the same elements and users and two orderings of
\* the same devices return the same user_element_access, and the same
\* element_device_imp and element_device_comp for every element and device.
C11_OrderIndependence ==
    (pc = "build" /\ first_result # <<>>) => NamedResult = first_result[1]

\* C12: size annotations reflect the latest solve.  After any sequence of
\* optimize calls on the same elements, an element has a size entry for a
\* device name exactly when the mapping returned by the latest call lists
\* the element under the device of that name, and the entry is the size
\* solved in that call.
C12_LatestSolve ==
    Returned =>
        \A e \in EIdx :
            LET ann == optimizer_size[elements[e].name]
            IN \A n \in (DOMAIN ann) \cup (DOMAIN output) :
                  /\ (n \in DOMAIN ann) <=>
                        (n \in DOMAIN output /\ elements[e].name \in Range(output[n]))
                  /\ (n \in DOMAIN ann) => ann[n] = s[<<e, DeviceAt(n)>>]

====
